---- MODULE Spec2Model ----
(***************************************************************************)
(* megascops: a local TF-IDF index over a directory of documents and the   *)
(* ranked search against it (src/megascops/main.py).                       *)
(*                                                                         *)
(* A Python str is a sequence of one-character strings.  A dict is kept    *)
(* with its insertion order wherever the program's output depends on it.   *)
(* A float weight c/total * ln(N/df) is kept exactly as the integer        *)
(* c * (Scale/total) * (LnMilli(N) - LnMilli(df)), Scale a common multiple *)
(* of every possible document length.                                      *)
(***************************************************************************)
EXTENDS Integers, Sequences, FiniteSets

VARIABLES
    \* one Tokenizer object and the loops that iterate it
    tk_text,      \* the text the Tokenizer was built from
    tk_content,   \* Tokenizer._content
    tk_out,       \* tokens returned in the current iteration of the object
    tk_prev,      \* tokens returned in the earlier iterations of the object
    tk_pass,      \* number of the current iteration of the object
    tk_stopped,   \* StopIteration was raised in the current iteration
    \* the command line program and its files
    dir,          \* the directory: its .pdf files in os.listdir order
    artifact,     \* tfidf.json
    pc,           \* "idle", "index_loop", "exited"
    command,      \* args.command of the last process started
    docnames,     \* DocumentCorpus._docnames
    corpus_len,   \* DocumentCorpus._len
    rtf,          \* index(): rtf
    tdm,          \* index(): tdm
    query,        \* search(): query
    ranked,       \* the (doc, score) lines search() printed
    message,      \* the other line search() printed
    fault,        \* the exception that ended the process, if any
    exit_status   \* the process's exit status

tokvars == <<tk_text, tk_content, tk_out, tk_prev, tk_pass, tk_stopped>>
progvars == <<dir, artifact, pc, command, docnames, corpus_len, rtf, tdm, query,
              ranked, message, fault, exit_status>>
vars == <<tokvars, progvars>>

\* ------------------------------------------------------------- bounds
MaxLen == 3       \* characters of a text given to a Tokenizer alone
MaxPasses == 2    \* iterations of one Tokenizer object
MaxDocs == 2      \* documents of the directory
MaxWords == 2     \* words of a document's text, and of a query

\* ------------------------------------------------------------- characters
Chars == {"a", "B", "1", ".", " "}

isalnum(c) == c \in {"a", "b", "A", "B", "1"}

isspace(c) == c \in {" "}

lower_char(c) == IF c = "A" THEN "a" ELSE IF c = "B" THEN "b" ELSE c

lower(s) == [i \in 1..Len(s) |-> lower_char(s[i])]

RECURSIVE lstrip(_)
lstrip(s) ==
    IF s # <<>> /\ isspace(Head(s)) THEN lstrip(Tail(s)) ELSE s

\* ------------------------------------------------------------- Tokenizer
chop(content, n) ==
    [token |-> SubSeq(content, 1, n),
     content |-> SubSeq(content, n + 1, Len(content))]

RECURSIVE alnum_run(_, _)
alnum_run(content, n) ==
    IF n < Len(content) /\ isalnum(content[n + 1])
    THEN alnum_run(content, n + 1)
    ELSE n

chop_alphanum_raw(content) == chop(content, alnum_run(content, 0))

chop_alphanum(content) ==
    LET r == chop(content, alnum_run(content, 0))
    IN  [token |-> lower(r.token), content |-> r.content]

\* __next__: the token returned (or StopIteration) and the _content left.
Tokenizer_next(content) ==
    LET c == lstrip(content)
    IN  IF Len(c) = 0
        THEN [stop |-> TRUE, token |-> <<>>, content |-> c]
        ELSE LET r == IF isalnum(c[1]) THEN chop_alphanum(c) ELSE chop(c, 1)
             IN  [stop |-> FALSE, token |-> r.token, content |-> r.content]

Tokenizer_iter_fresh(content, text) == text

\* __iter__ returns self: the iteration goes on from the _content left.
Tokenizer_iter(content, text) == content

\* `for term in Tokenizer(text)`: every token of a new Tokenizer, in order.
RECURSIVE TokenizeAll(_)
TokenizeAll(text) ==
    LET r == Tokenizer_next(text)
    IN  IF r.stop THEN <<>> ELSE <<r.token>> \o TokenizeAll(r.content)


\* ------------------------------------------------------------- documents
Words == {<<"a">>, <<"B">>}

RECURSIVE join(_)
join(ws) ==
    IF Len(ws) = 0 THEN <<>>
    ELSE IF Len(ws) = 1 THEN ws[1]
    ELSE ws[1] \o <<" ">> \o join(Tail(ws))

\* The texts the documents and the queries are drawn from.
Texts == {join(ws) : ws \in UNION {[1..k -> Words] : k \in 0..MaxWords}}

Readable(text) == [ok |-> TRUE, text |-> text]
Unreadable == [ok |-> FALSE, text |-> <<>>]
DirEntries == {Readable(t) : t \in Texts} \cup {Unreadable}
Dirs == UNION {[1..n -> DirEntries] : n \in 0..MaxDocs}

\* A document is named by its place in the listing.
scan_directory(d) == [i \in 1..Len(d) |-> i]

\* The text of a document, or ok = FALSE when reading it raises.
extract_text(d, docname) == d[docname]

DocumentCorpus_len_remaining(len, names) == Len(names)

\* __len__: the length taken at construction, not that of the list left.
DocumentCorpus_len(len, names) == len

\* tfidf.json.  json.dump and json.load keep the keys, their order and the
\* weights of the two-level mapping, so the file is kept as the mapping.
NoFile == [exists |-> FALSE]

File(tfidf) == [exists |-> TRUE, tfidf |-> tfidf]
EmptyDict == [t \in {} |-> {}]

\* ------------------------------------------------------------- index
\* rtf[doc][term] += 1
rtf_add(dtf, term) ==
    [t \in DOMAIN dtf \cup {term} |->
        IF t = term
        THEN (IF t \in DOMAIN dtf THEN dtf[t] ELSE 0) + 1
        ELSE dtf[t]]

tdm_add_first_only(tdmv, term, doc) ==
    [t \in DOMAIN tdmv \cup {term} |->
        IF t \in DOMAIN tdmv THEN tdmv[t] ELSE {doc}]

\* tdm[term].add(doc)
tdm_add(tdmv, term, doc) ==
    [t \in DOMAIN tdmv \cup {term} |->
        IF t = term
        THEN (IF t \in DOMAIN tdmv THEN tdmv[t] ELSE {}) \cup {doc}
        ELSE tdmv[t]]

\* The inner loop of index() over the tokens of one document.
RECURSIVE accumulate(_, _, _, _)
accumulate(dtf, tdmv, doc, tokens) ==
    IF tokens = <<>> THEN [dtf |-> dtf, tdm |-> tdmv]
    ELSE accumulate(rtf_add(dtf, Head(tokens)),
                    tdm_add(tdmv, Head(tokens), doc), doc, Tail(tokens))

RECURSIVE Fact(_)
Fact(n) == IF n <= 1 THEN 1 ELSE n * Fact(n - 1)

\* A multiple of every length a document can have.
Scale == Fact(MaxWords)

\* 1000 * ln(n)
LnMilli(n) ==
    CASE n = 1 -> 0 [] n = 2 -> 693 [] n = 3 -> 1099
      [] n = 4 -> 1386 [] n = 5 -> 1609 [] n = 6 -> 1792

RECURSIVE SumOver(_, _)
SumOver(f, S) ==
    IF S = {} THEN 0
    ELSE LET x == CHOOSE y \in S : TRUE IN f[x] + SumOver(f, S \ {x})

\* sum(dtf.values())
dtf_total(dtf) == SumOver(dtf, DOMAIN dtf)

\* len(tdm[term]), tdm a defaultdict(set)
doc_freq(tdmv, term) ==
    IF term \in DOMAIN tdmv THEN Cardinality(tdmv[term]) ELSE 0

\* tf * idf
weight(raw_tf, total, N, df) ==
    (raw_tf * (Scale \div total)) * (LnMilli(N) - LnMilli(df))

\* The second loop of index(): the index, or the exception it raises.
tfidf_loop(rtfv, tdmv, N) ==
    LET docs == 1..Len(rtfv)
        terms == UNION {DOMAIN rtfv[i].dtf : i \in docs}
        pairs == {<<i, t>> \in docs \X terms : t \in DOMAIN rtfv[i].dtf}
        has(t) == [i \in docs |-> t \in DOMAIN rtfv[i].dtf]
        entry(i, t) ==
            [doc |-> rtfv[i].doc,
             score |-> weight(rtfv[i].dtf[t], dtf_total(rtfv[i].dtf), N,
                              doc_freq(tdmv, t))]
        RECURSIVE postings(_, _)
        postings(t, i) ==
            IF i > Len(rtfv) THEN <<>>
            ELSE (IF has(t)[i] THEN <<entry(i, t)>> ELSE <<>>)
                 \o postings(t, i + 1)
    IN  IF \E p \in pairs :
              dtf_total(rtfv[p[1]].dtf) = 0 \/ doc_freq(tdmv, p[2]) = 0
        THEN [fault |-> "ZeroDivisionError", tfidf |-> EmptyDict]
        ELSE IF pairs # {} /\ N <= 0
        THEN [fault |-> "ValueError", tfidf |-> EmptyDict]
        ELSE [fault |-> "none",
              tfidf |-> [t \in terms |-> postings(t, 1)]]


build_tfidf_eager(rtfv, tdmv, N) ==
    IF N = 0
    THEN [fault |-> "ZeroDivisionError", tfidf |-> EmptyDict]
    ELSE tfidf_loop(rtfv, tdmv, N)

\* index() from `N = len(corpus)` to the end of the second loop: nothing is
\* divided by N before a (document, term) pair is reached.
build_tfidf(rtfv, tdmv, N) == tfidf_loop(rtfv, tdmv, N)

\* ------------------------------------------------------------- search
\* cummulative_score[doc] += score, a new key going last
add_score(cum, doc, score) ==
    IF \E i \in 1..Len(cum) : cum[i].doc = doc
    THEN [i \in 1..Len(cum) |->
            IF cum[i].doc = doc
            THEN [doc |-> doc, score |-> cum[i].score + score]
            ELSE cum[i]]
    ELSE Append(cum, [doc |-> doc, score |-> score])

\* for doc, score in tfidf.get(term, {}).items()
RECURSIVE add_postings(_, _)
add_postings(cum, posts) ==
    IF posts = <<>> THEN cum
    ELSE add_postings(add_score(cum, Head(posts).doc, Head(posts).score),
                      Tail(posts))

tfidf_get(tfidf, term) ==
    IF term \in DOMAIN tfidf THEN tfidf[term] ELSE <<>>

RECURSIVE accumulate_scores(_, _, _)
accumulate_scores(cum, tfidf, tokens) ==
    IF tokens = <<>> THEN cum
    ELSE accumulate_scores(add_postings(cum, tfidf_get(tfidf, Head(tokens))),
                           tfidf, Tail(tokens))

RECURSIVE dedup(_)
dedup(tokens) ==
    IF tokens = <<>> THEN <<>>
    ELSE <<Head(tokens)>>
         \o dedup(SelectSeq(Tail(tokens), LAMBDA t : t # Head(tokens)))

query_terms_set(q) == dedup(TokenizeAll(q))

\* `for term in Tokenizer(query)`: every occurrence, in order
query_terms(q) == TokenizeAll(q)

\* The place of item x in a list sorted by descending score, x going after
\* the items of equal score.
insert_desc(sorted, x) ==
    LET k == Cardinality({i \in 1..Len(sorted) : sorted[i].score >= x.score})
    IN  SubSeq(sorted, 1, k) \o <<x>> \o SubSeq(sorted, k + 1, Len(sorted))

insert_asc(sorted, x) ==
    LET k == Cardinality({i \in 1..Len(sorted) : sorted[i].score <= x.score})
    IN  SubSeq(sorted, 1, k) \o <<x>> \o SubSeq(sorted, k + 1, Len(sorted))

RECURSIVE sort_by(_, _, _)
sort_by(items, done, asc) ==
    IF items = <<>> THEN done
    ELSE sort_by(Tail(items),
                 IF asc THEN insert_asc(done, Head(items))
                 ELSE insert_desc(done, Head(items)),
                 asc)

reversed(items) == [i \in 1..Len(items) |-> items[Len(items) + 1 - i]]

sorted_ascending(items) == sort_by(items, <<>>, TRUE)

sorted_then_reversed(items) == reversed(sort_by(items, <<>>, TRUE))

\* sorted(items, key=lambda x: x[1], reverse=True): a stable sort, the items
\* of equal score staying in the order of the list.
sorted_reverse(items) == sort_by(items, <<>>, FALSE)

\* The lines search() prints for a loaded index.
search_rank(tfidf, q) ==
    sorted_reverse(accumulate_scores(<<>>, tfidf, query_terms(q)))

missing_index_falls_through == [message |-> "No index found", status |-> 0]

\* except FileNotFoundError: print("No index found"); exit(1)
missing_index == [message |-> "No index found", status |-> 1]


\* ------------------------------------------------------------- the program
Strs(n) == UNION {[1..k -> Chars] : k \in 0..n}

TokIdle ==
    /\ tk_text = <<>> /\ tk_content = <<>> /\ tk_out = <<>>
    /\ tk_prev = <<>> /\ tk_pass = 1 /\ tk_stopped = FALSE

ProcessNew ==
    /\ docnames = <<>> /\ corpus_len = 0 /\ rtf = <<>> /\ tdm = EmptyDict
    /\ query = <<>> /\ ranked = <<>> /\ message = ""
    /\ fault = "none" /\ exit_status = -1

\* The directory holds any documents; no index has been written yet.
Init ==
    /\ TokIdle
    /\ dir \in Dirs
    /\ artifact = NoFile
    /\ pc = "idle" /\ command = "none"
    /\ ProcessNew

\* main(): args.command == "index"; index() up to the first loop.
MainIndex ==
    /\ pc \in {"idle", "exited"}
    /\ pc' = "index_loop" /\ command' = "index"
    /\ docnames' = scan_directory(dir)
    /\ corpus_len' = Len(scan_directory(dir))
    /\ rtf' = <<>> /\ tdm' = EmptyDict
    /\ query' = <<>> /\ ranked' = <<>> /\ message' = ""
    /\ fault' = "none" /\ exit_status' = -1
    /\ UNCHANGED <<dir, artifact, tokvars>>

\* One round of `for doc, text_content in corpus`: DocumentCorpus.__next__
\* pops the name, then extracts; an exception of extract_text is caught
\* nowhere and ends the process.
IndexDoc ==
    /\ pc = "index_loop" /\ docnames # <<>>
    /\ LET docname == Head(docnames)
           e == extract_text(dir, docname)
           a == accumulate(EmptyDict, tdm, docname, TokenizeAll(e.text))
       IN  /\ docnames' = Tail(docnames)
           /\ IF e.ok
              THEN /\ rtf' = Append(rtf, [doc |-> docname, dtf |-> a.dtf])
                   /\ tdm' = a.tdm
                   /\ UNCHANGED <<pc, fault, exit_status>>
              ELSE /\ pc' = "exited" /\ fault' = "ExtractError"
                   /\ exit_status' = 1
                   /\ UNCHANGED <<rtf, tdm>>
    /\ UNCHANGED <<dir, artifact, command, corpus_len, query, ranked,
                   message, tokvars>>

\* The corpus raised StopIteration: the second loop, json.dump, exit(0).
IndexFinish ==
    /\ pc = "index_loop" /\ docnames = <<>>
    /\ LET b == build_tfidf(rtf, tdm,
                            DocumentCorpus_len(corpus_len, docnames))
       IN  IF b.fault = "none"
           THEN artifact' = File(b.tfidf) /\ exit_status' = 0
                /\ UNCHANGED fault
           ELSE fault' = b.fault /\ exit_status' = 1
                /\ UNCHANGED artifact
    /\ pc' = "exited"
    /\ UNCHANGED <<dir, command, docnames, corpus_len, rtf, tdm, query,
                   ranked, message, tokvars>>

\* main(): args.command == "search"; search(query); exit(0).
MainSearch(q) ==
    /\ pc \in {"idle", "exited"}
    /\ pc' = "exited" /\ command' = "search"
    /\ query' = q
    /\ docnames' = <<>> /\ corpus_len' = 0 /\ rtf' = <<>> /\ tdm' = EmptyDict
    /\ fault' = "none"
    /\ IF artifact.exists
       THEN /\ ranked' = search_rank(artifact.tfidf, q)
            /\ message' = "" /\ exit_status' = 0
       ELSE /\ ranked' = <<>>
            /\ message' = missing_index.message
            /\ exit_status' = missing_index.status
    /\ UNCHANGED <<dir, artifact, tokvars>>

Next ==
    \/ MainIndex
    \/ IndexDoc
    \/ IndexFinish
    \/ \E q \in Texts : MainSearch(q)

Spec == Init /\ [][Next]_vars

\* ------------------------------------------------------------- one Tokenizer
\* Tokenizer(text), for any text.
InitTok ==
    /\ tk_text \in Strs(MaxLen)
    /\ tk_content = tk_text
    /\ tk_out = <<>> /\ tk_prev = <<>> /\ tk_pass = 1 /\ tk_stopped = FALSE
    /\ dir = <<>> /\ artifact = NoFile /\ pc = "idle" /\ command = "none"
    /\ ProcessNew

\* next(tokenizer), until it raises StopIteration.
TokNext ==
    /\ ~tk_stopped
    /\ LET r == Tokenizer_next(tk_content)
       IN  /\ tk_content' = r.content
           /\ tk_stopped' = r.stop
           /\ tk_out' = IF r.stop THEN tk_out ELSE Append(tk_out, r.token)
    /\ UNCHANGED <<tk_text, tk_prev, tk_pass, progvars>>

\* A new loop over the same object, after a whole or a part of the last one.
TokIter ==
    /\ tk_pass < MaxPasses
    /\ tk_pass' = tk_pass + 1
    /\ tk_prev' = tk_prev \o tk_out
    /\ tk_out' = <<>> /\ tk_stopped' = FALSE
    /\ tk_content' = Tokenizer_iter(tk_content, tk_text)
    /\ UNCHANGED <<tk_text, progvars>>

\* Tokenizer(text) again: a new object built from the same text.
TokNew ==
    /\ tk_content' = tk_text
    /\ tk_out' = <<>> /\ tk_prev' = <<>> /\ tk_pass' = 1
    /\ tk_stopped' = FALSE
    /\ UNCHANGED <<tk_text, progvars>>

NextTok ==
    \/ TokNext
    \/ TokIter
    \/ TokNew

SpecTok == InitTok /\ [][NextTok]_vars


\* ------------------------------------------------------------- properties
StripWS(s) == SelectSeq(s, LAMBDA c : ~isspace(c))

RECURSIVE Flatten(_)
Flatten(tokens) ==
    IF tokens = <<>> THEN <<>> ELSE Head(tokens) \o Flatten(Tail(tokens))

IsAlnumToken(t) ==
    \A i \in 1..Len(t) : isalnum(t[i]) /\ lower_char(t[i]) = t[i]

IsPunctToken(t) == Len(t) = 1 /\ ~isalnum(t[1])

\* The maximal runs of alphanumeric characters of s, counted by their starts.
AlnumRuns(s) ==
    Cardinality({i \in 1..Len(s) :
                    isalnum(s[i]) /\ (i = 1 \/ ~isalnum(s[i - 1]))})

\* C1: while a new Tokenizer is iterated, every token returned is non-empty,
\* holds no whitespace and is either lowercased alphanumeric characters or
\* exactly one non-alphanumeric character; the tokens returned, followed by
\* what is left of the text, are the text without its whitespace, up to
\* case; and once the iteration has stopped there are as many alphanumeric
\* tokens as the text has maximal alphanumeric runs (each token is a whole
\* run).
C1_TokensPartitionText ==
    tk_pass = 1 =>
        /\ \A k \in 1..Len(tk_out) :
              /\ Len(tk_out[k]) > 0
              /\ \A i \in 1..Len(tk_out[k]) : ~isspace(tk_out[k][i])
              /\ IsAlnumToken(tk_out[k]) \/ IsPunctToken(tk_out[k])
        /\ Flatten(tk_out) \o lower(StripWS(tk_content))
              = lower(StripWS(tk_text))
        /\ tk_stopped =>
              /\ tk_content = <<>>
              /\ Cardinality({k \in 1..Len(tk_out) : isalnum(tk_out[k][1])})
                    = AlnumRuns(tk_text)

C1_Witness ==
    /\ tk_pass = 1 /\ tk_stopped
    /\ \E i \in 1..Len(tk_text) : isspace(tk_text[i])
    /\ \E i \in 1..Len(tk_text) : tk_text[i] = "B"
    /\ \E k \in 1..Len(tk_out) : IsPunctToken(tk_out[k])
    /\ \E k \in 1..Len(tk_out) : IsAlnumToken(tk_out[k])

DocTokens(i) == TokenizeAll(dir[i].text)

Occurrences(tokens, term) ==
    Cardinality({k \in 1..Len(tokens) : tokens[k] = term})

IndexEnded == pc = "exited" /\ command = "index"

SearchEnded == pc = "exited" /\ command = "search"

\* C2: at every point of index(), for every token, len(tdm[token]) is the
\* number of documents whose term-frequency table holds the token with a
\* count >= 1, which is the number of documents read so far whose text holds
\* the token, however often.
C2_DocFrequency ==
    \A t \in DOMAIN tdm \cup UNION {DOMAIN rtf[i].dtf : i \in 1..Len(rtf)} :
        /\ doc_freq(tdm, t)
              = Cardinality({i \in 1..Len(rtf) :
                    t \in DOMAIN rtf[i].dtf /\ rtf[i].dtf[t] >= 1})
        /\ doc_freq(tdm, t)
              = Cardinality({i \in 1..Len(rtf) :
                    Occurrences(DocTokens(rtf[i].doc), t) >= 1})

C2_Witness ==
    /\ IndexEnded /\ fault = "none" /\ Len(rtf) = 2
    /\ \E t \in DOMAIN tdm :
          /\ doc_freq(tdm, t) = 2
          /\ \E i \in 1..Len(rtf) :
                t \in DOMAIN rtf[i].dtf /\ rtf[i].dtf[t] >= 2

\* The weight the loaded index gives token t for document d, 0 when absent.
IndexWeight(tfidf, t, d) ==
    IF t \in DOMAIN tfidf /\ \E k \in 1..Len(tfidf[t]) : tfidf[t][k].doc = d
    THEN LET k == CHOOSE k \in 1..Len(tfidf[t]) : tfidf[t][k].doc = d
         IN  tfidf[t][k].score
    ELSE 0

Listed(tfidf, t, d) ==
    t \in DOMAIN tfidf /\ \E k \in 1..Len(tfidf[t]) : tfidf[t][k].doc = d

RECURSIVE QueryScore(_, _, _)
QueryScore(tfidf, tokens, d) ==
    IF tokens = <<>> THEN 0
    ELSE IndexWeight(tfidf, Head(tokens), d)
         + QueryScore(tfidf, Tail(tokens), d)

\* C3: a search of a loaded index ends without an exception and with status
\* 0; it prints one line for each document some query token lists, and no
\* other; the score of a line is the sum over the token occurrences of the
\* query of the token's weight for the document; with no query token in the
\* index it prints nothing.
C3_ScoreIsSumOverOccurrences ==
    (SearchEnded /\ artifact.exists) =>
        LET tfidf == artifact.tfidf
            toks == TokenizeAll(query)
        IN  /\ fault = "none" /\ exit_status = 0
            /\ {ranked[i].doc : i \in 1..Len(ranked)}
                  = {d \in 1..Len(dir) :
                        \E k \in 1..Len(toks) : Listed(tfidf, toks[k], d)}
            /\ \A i, j \in 1..Len(ranked) :
                  ranked[i].doc = ranked[j].doc => i = j
            /\ \A i \in 1..Len(ranked) :
                  ranked[i].score = QueryScore(tfidf, toks, ranked[i].doc)
            /\ (\A k \in 1..Len(toks) : toks[k] \notin DOMAIN tfidf)
                  => ranked = <<>>

C3_Witness ==
    /\ SearchEnded /\ artifact.exists
    /\ LET toks == TokenizeAll(query)
       IN  /\ Len(toks) = 2 /\ toks[1] = toks[2]
           /\ \E i \in 1..Len(ranked) :
                 /\ IndexWeight(artifact.tfidf, toks[1], ranked[i].doc) > 0
                 /\ ranked[i].score
                       = 2 * IndexWeight(artifact.tfidf, toks[1],
                                         ranked[i].doc)

\* C4: the lines search() prints are in non-increasing order of score.
C4_RankedDescending ==
    SearchEnded =>
        \A i, j \in 1..Len(ranked) :
            i < j => ranked[i].score >= ranked[j].score

C4_Witness ==
    /\ SearchEnded /\ Len(ranked) >= 2
    /\ ranked[1].score > ranked[2].score
    /\ ranked[1].doc > ranked[2].doc

\* C5 as claimed: two documents of equal score are printed in the order of
\* scan_directory's list.
C5_TiesInDiscoveryOrder ==
    SearchEnded =>
        \A i, j \in 1..Len(ranked) :
            (i < j /\ ranked[i].score = ranked[j].score)
                => ranked[i].doc < ranked[j].doc

\* The first query token that lists document d.
FirstToken(tfidf, toks, d) ==
    CHOOSE k \in 1..Len(toks) :
        /\ Listed(tfidf, toks[k], d)
        /\ \A m \in 1..(k - 1) : ~Listed(tfidf, toks[m], d)

\* C5 as amended: two documents of equal score are printed in the order in
\* which they first got a score: by the first query token that lists them
\* and, for the same token, in the order of scan_directory's list.  For a
\* query of one token that is the order of scan_directory's list.
C5_TiesInFirstScoredOrder ==
    (SearchEnded /\ artifact.exists) =>
        LET tfidf == artifact.tfidf
            toks == TokenizeAll(query)
            first(d) == FirstToken(tfidf, toks, d)
        IN  \A i, j \in 1..Len(ranked) :
                (i < j /\ ranked[i].score = ranked[j].score) =>
                    /\ first(ranked[i].doc) <= first(ranked[j].doc)
                    /\ first(ranked[i].doc) = first(ranked[j].doc)
                          => ranked[i].doc < ranked[j].doc
                    /\ Len(toks) = 1 => ranked[i].doc < ranked[j].doc

C5_Witness ==
    /\ SearchEnded /\ Len(ranked) = 2
    /\ ranked[1].score = ranked[2].score
    /\ ranked[1].doc > ranked[2].doc

\* C6: a search with no tfidf.json prints "No index found" and no ranked
\* line, and ends by exit(1), not by an exception and not by the exit(0) of
\* main().
C6_MissingIndexReported ==
    (SearchEnded /\ ~artifact.exists) =>
        /\ message = "No index found"
        /\ ranked = <<>>
        /\ fault = "none"
        /\ exit_status # 0

C6_Witness == SearchEnded /\ ~artifact.exists /\ query # <<>>

\* C7 as claimed: when index() ends, the index has been written and holds
\* every document of the directory that could be read, whether or not
\* another document could not.
C7_FailureSkipsDocument ==
    IndexEnded =>
        /\ artifact.exists
        /\ \A i \in 1..Len(dir) :
              (dir[i].ok /\ DocTokens(i) # <<>>) =>
                  \E t \in DOMAIN artifact.tfidf : Listed(artifact.tfidf, t, i)

\* C9: when every document can be read, index() ends without an exception;
\* a document with no token has an empty term-frequency table and is listed
\* under no token of the index; and every weight of the index is
\* tf * ln(N / df) with N the number of documents of the directory, those
\* without a token included.
C9_EmptyDocumentCounts ==
    (IndexEnded /\ \A i \in 1..Len(dir) : dir[i].ok) =>
        /\ fault = "none" /\ exit_status = 0 /\ artifact.exists
        /\ Len(rtf) = Len(dir)
        /\ \A i \in 1..Len(dir) :
              DocTokens(i) = <<>> =>
                  /\ rtf[i].doc = i /\ DOMAIN rtf[i].dtf = {}
                  /\ \A t \in DOMAIN artifact.tfidf :
                        ~Listed(artifact.tfidf, t, i)
        /\ \A t \in DOMAIN artifact.tfidf :
              \A k \in 1..Len(artifact.tfidf[t]) :
                  LET d == artifact.tfidf[t][k].doc
                      df == Cardinality({i \in 1..Len(dir) :
                                Occurrences(DocTokens(i), t) >= 1})
                  IN  artifact.tfidf[t][k].score
                        = weight(Occurrences(DocTokens(d), t),
                                 Len(DocTokens(d)), Len(dir), df)

C9_Witness ==
    /\ IndexEnded /\ artifact.exists
    /\ \E i \in 1..Len(dir) : dir[i].ok /\ DocTokens(i) = <<>>
    /\ \E t \in DOMAIN artifact.tfidf :
          \E k \in 1..Len(artifact.tfidf[t]) : artifact.tfidf[t][k].score > 0

\* C10: index() of a directory without documents ends without an exception,
\* with status 0, and writes an index without tokens.
C10_EmptyCorpus ==
    (IndexEnded /\ dir = <<>>) =>
        /\ fault = "none" /\ exit_status = 0
        /\ artifact.exists /\ DOMAIN artifact.tfidf = {}

C10_Witness == IndexEnded /\ dir = <<>> /\ artifact.exists

====
